---- MODULE Spec2Model ----
(***************************************************************************)
(* Model of unit_track_content_changes/update_content_dir.py.              *)
(*                                                                         *)
(* A file name is the sequence of its dot-separated components:            *)
(* "HSE.1.txt" is <<"HSE", "1", "txt">>.  A directory is a function from   *)
(* the names of its files to their texts.  The history directory is a      *)
(* function from the timestamps of its content_<timestamp> directories to  *)
(* those directories; a timestamp is the number of the run that made it,   *)
(* runs starting in distinct seconds.                                      *)
(***************************************************************************)
EXTENDS Integers, Sequences, FiniteSets, TLC

VARIABLES
    manuals,      \* _MANUAL_DIR: HSE*.docx name -> text docx2python extracts
    content,      \* _CONTENT_DIR
    cacheExists,  \* whether _CONTENT_CACHE_DIR exists
    cache,        \* the files of _CONTENT_CACHE_DIR
    history,      \* _CONTENT_HISTORY_DIR: timestamp -> snapshot directory
    changelog,    \* the lines of changelog.txt
    notified,     \* the calls of gvim -d of this process: <<new file, old file,
                  \* whether it returned zero>>
    diffFailed,   \* whether a call of gvim -d has returned nonzero in any process
    pc,           \* position of the process: idle, main, extract, compare, removed
    run,          \* number of processes started; the clock of the running one
    todoDocs,     \* manual files _extract_hse_manual_content has yet to visit
    todoNew,      \* files of new.glob('*') the first loop has yet to visit
    todoOld,      \* names of old_stems - new_stems the last loop has yet to visit
    outcome,      \* how the last process ended: none, ok, or the exception
                  \* that ended it, ValueError or CalledProcessError
    failed,       \* whether the except clause of main ran in this process
    start         \* the stores as the running process found them

vars == <<manuals, content, cacheExists, cache, history, changelog, notified,
          diffFailed, pc, run, todoDocs, todoNew, todoOld, outcome, failed, start>>

\* Number of processes (runs of the script) the model follows.
MaxRuns == 3

\* Stems of the manual files the maintainer may put in _MANUAL_DIR.
Stems == {<<"HSE">>, <<"HSE", "1">>, <<"HSE2">>}

\* Texts a manual file may extract to: two revisions of HSE.docx, one of the others.
Texts(stem) == IF stem = <<"HSE">> THEN {"v1", "v2"} ELSE {"v1"}

EmptyDir == [n \in {} |-> ""]

Max(S) == CHOOSE x \in S : \A y \in S : y <= x

\* Path(name).stem: the name without its last suffix.
PathStem(name) == IF Len(name) >= 2 THEN SubSeq(name, 1, Len(name) - 1) ELSE name

\* Path(name).suffix: the last suffix, "" when there is none.
PathSuffix(name) == IF Len(name) >= 2 THEN name[Len(name)] ELSE ""

\* Path(name).with_suffix("." + suffix): the last suffix replaced, or appended
\* when the name has none.
WithSuffix(name, suffix) == PathStem(name) \o <<suffix>>

\* dir_.glob(f'{stem}.*'): the names that start with the stem and a dot.
GlobStem(dir, stem) ==
    {n \in DOMAIN dir : Len(n) > Len(stem) /\ SubSeq(n, 1, Len(stem)) = stem}

\* open(...).write / shutil.copy / touch: the directory with one file written.
WriteFile(dir, name, text) ==
    [n \in DOMAIN dir \cup {name} |-> IF n = name THEN text ELSE dir[n]]

\* _try_find_stem: none, the single match, or the ValueError.
try_find_stem(dir, stem) ==
    LET candidates == GlobStem(dir, stem)
    IN  IF candidates = {} THEN [kind |-> "none"]
        ELSE IF Cardinality(candidates) = 1
             THEN [kind |-> "match", name |-> CHOOSE n \in candidates : TRUE]
             ELSE [kind |-> "raise"]

\* A lookup that visits the directories oldest first.
RECURSIVE find_oldest_in(_, _, _)
find_oldest_in(hist, dirs, stem) ==
    IF dirs = {} THEN [kind |-> "none"]
    ELSE LET d == CHOOSE x \in dirs : \A y \in dirs : x <= y
             match == try_find_stem(hist[d], stem)
         IN  IF match.kind = "none" THEN find_oldest_in(hist, dirs \ {d}, stem)
             ELSE IF match.kind = "raise" THEN [kind |-> "raise"]
             ELSE IF PathSuffix(match.name) = "deleted" THEN [kind |-> "none"]
             ELSE [kind |-> "match", dir |-> d, name |-> match.name]

\* The loop of _find_latest over the directories dirs of hist, newest first.
RECURSIVE find_latest_in(_, _, _)
find_latest_in(hist, dirs, stem) ==
    IF dirs = {} THEN [kind |-> "none"]
    ELSE LET d == Max(dirs)
             match == try_find_stem(hist[d], stem)
         IN  IF match.kind = "none" THEN find_latest_in(hist, dirs \ {d}, stem)
             ELSE IF match.kind = "raise" THEN [kind |-> "raise"]
             ELSE IF PathSuffix(match.name) = "deleted" THEN [kind |-> "none"]
             ELSE [kind |-> "match", dir |-> d, name |-> match.name]

\* _find_latest(name) against the history hist.
find_latest(hist, name) == find_latest_in(hist, DOMAIN hist, PathStem(name))

\* filecmp.cmp(old_file, new_file): the snapshot copy and the fresh extraction
\* are written at different times, so their os.stat signatures differ and
\* the texts decide.
filecmp(oldText, newText) == oldText = newText

\* changes.mkdir(exist_ok=True) followed by a write of changes / name.
WriteChange(hist, changes, name, text) ==
    LET dir == IF changes \in DOMAIN hist THEN hist[changes] ELSE EmptyDir
    IN  [d \in DOMAIN hist \cup {changes} |->
            IF d = changes THEN WriteFile(dir, name, text) ELSE hist[d]]

\* The entry _add_a_blank_entry_to_the_change_log appends.
LogEntry(filename, timestamp, msg) ==
    [filename |-> filename, timestamp |-> timestamp, msg |-> msg]

\* A writer that opens the changelog with mode "w".
overwrite_change_log(log, filename, timestamp, msg) ==
    <<LogEntry(filename, timestamp, msg)>>

\* _add_a_blank_entry_to_the_change_log: the changelog opened with mode "a"
\* and the entry written.
add_a_blank_entry_to_the_change_log(log, filename, timestamp, msg) ==
    Append(log, LogEntry(filename, timestamp, msg))

\* A diff run without check=True: the exit status is ignored.
gvim_diff_unchecked(exitOk) == "ok"

\* _gvim_diff: both files exist; subprocess.run(..., check=True) raises
\* CalledProcessError when gvim exits nonzero.
gvim_diff(exitOk) == IF exitOk THEN "ok" ELSE "CalledProcessError"

\* A pruning that also removes the oldest directory.
remove_empty_and_oldest(hist) ==
    LET kept == {d \in DOMAIN hist :
                    DOMAIN hist[d] # {} /\ \E e \in DOMAIN hist : e < d}
    IN  [d \in kept |-> hist[d]]

\* The history without its empty directories (remove_empty).
remove_empty(hist) ==
    LET kept == {d \in DOMAIN hist : DOMAIN hist[d] # {}}
    IN  [d \in kept |-> hist[d]]

\* A restore that does not clear the content directory first.
restored_without_clear(contentDir, cacheDir) ==
    [n \in DOMAIN contentDir \cup DOMAIN cacheDir |->
        IF n \in DOMAIN cacheDir THEN cacheDir[n] ELSE contentDir[n]]

\* A caching that does not remove the cache directory of an earlier process.
moved_to_cache_without_rmtree(contentDir, cacheDir) ==
    restored_without_clear(cacheDir, contentDir)

\* _move_content_to_cache: the cache directory after rmtree, mkdir and the
\* move of every content file into it.
moved_to_cache(contentDir, cacheDir) == contentDir

\* _restore_cached_content: the content directory after _clear_content_dir
\* and the move of every cached file back into it.
restored(contentDir, cacheDir) == cacheDir

\* The manual directories the maintainer can leave: each stem absent or
\* present with one of its texts.
ManualDirs ==
    UNION {{docs \in [{s \o <<"docx">> : s \in S} -> {"v1", "v2"}] :
                \A doc \in DOMAIN docs : docs[doc] \in Texts(PathStem(doc))} :
           S \in SUBSET Stems}

Init ==
    /\ manuals = EmptyDir
    /\ content = EmptyDir
    /\ cacheExists = FALSE
    /\ cache = EmptyDir
    /\ history \in {EmptyDir, [d \in {0} |-> EmptyDir]}
    /\ changelog = <<>>
    /\ notified = <<>>
    /\ diffFailed = FALSE
    /\ pc = "idle"
    /\ run = 0
    /\ todoDocs = {}
    /\ todoNew = {}
    /\ todoOld = {}
    /\ outcome = "none"
    /\ failed = FALSE
    /\ start = [content |-> EmptyDir, history |-> EmptyDir, changelog |-> <<>>,
                manuals |-> EmptyDir, outcome |-> "none", failed |-> FALSE,
                pruned |-> {}]

\* The maintainer replaces the manuals and starts the script: the module is
\* imported, which removes the empty history directories.
StartScript(docs) ==
    /\ pc = "idle"
    /\ run < MaxRuns
    /\ manuals' = docs
    /\ history' = remove_empty(history)
    /\ run' = run + 1
    /\ pc' = "main"
    /\ failed' = FALSE
    /\ start' = [content |-> content, history |-> history', changelog |-> changelog,
                 manuals |-> manuals, outcome |-> outcome, failed |-> failed,
                 pruned |-> DOMAIN history \ DOMAIN history']
    /\ notified' = <<>>
    /\ todoNew' = {}
    /\ todoOld' = {}
    /\ UNCHANGED <<content, cacheExists, cache, changelog, diffFailed, todoDocs,
                   outcome>>

\* _move_content_to_cache
move_content_to_cache ==
    /\ pc = "main"
    /\ cacheExists' = TRUE
    /\ cache' = moved_to_cache(content, cache)
    /\ content' = EmptyDir
    /\ todoDocs' = DOMAIN manuals
    /\ pc' = "extract"
    /\ UNCHANGED <<manuals, history, changelog, notified, diffFailed, run, todoNew,
                   todoOld, outcome, failed, start>>

\* _extract_file_content(manual_file) returns.
extract_file_content(doc) ==
    /\ pc = "extract"
    /\ doc \in todoDocs
    /\ content' = WriteFile(content, WithSuffix(doc, "txt"), manuals[doc])
    /\ todoDocs' = todoDocs \ {doc}
    /\ UNCHANGED <<manuals, cacheExists, cache, history, changelog, notified,
                   diffFailed, pc, run, todoNew, todoOld, outcome, failed, start>>

\* _extract_file_content(manual_file) raises: the except clause of main runs
\* _restore_cached_content and main goes on to _compare_content_files.
restore_cached_content(doc) ==
    /\ pc = "extract"
    /\ doc \in todoDocs
    /\ content' = restored(content, cache)
    /\ cache' = EmptyDir
    /\ cacheExists' = FALSE
    /\ failed' = TRUE
    /\ todoNew' = DOMAIN content'
    /\ pc' = "compare"
    /\ UNCHANGED <<manuals, history, changelog, notified, diffFailed, run,
                   todoDocs, todoOld, outcome, start>>

\* _extract_hse_manual_content returns: main goes on to _compare_content_files.
extract_done ==
    /\ pc = "extract"
    /\ todoDocs = {}
    /\ todoNew' = DOMAIN content
    /\ pc' = "compare"
    /\ UNCHANGED <<manuals, content, cacheExists, cache, history, changelog,
                   notified, diffFailed, run, todoDocs, todoOld, outcome, failed, start>>

\* One pass of the first loop of _compare_content_files, for new_file;
\* diffOk is whether gvim -d returns zero.
compare_new_file(new_file, diffOk) ==
    /\ pc = "compare"
    /\ new_file \in todoNew
    /\ todoNew' = todoNew \ {new_file}
    /\ LET old_file == find_latest(history, new_file)
       IN  CASE old_file.kind = "raise" ->
                  /\ pc' = "idle"
                  /\ outcome' = "ValueError"
                  /\ UNCHANGED <<history, changelog, notified, diffFailed>>
             [] old_file.kind = "none" ->
                  /\ changelog' = add_a_blank_entry_to_the_change_log(changelog,
                        PathStem(new_file), run, "file added")
                  /\ history' = WriteChange(history, run, new_file, content[new_file])
                  /\ UNCHANGED <<notified, diffFailed, pc, outcome>>
             [] old_file.kind = "match"
                  /\ ~filecmp(history[old_file.dir][old_file.name], content[new_file]) ->
                  /\ changelog' = add_a_blank_entry_to_the_change_log(changelog,
                        PathStem(old_file.name), run, "#TODO")
                  /\ history' = WriteChange(history, run, new_file, content[new_file])
                  /\ notified' = Append(notified,
                        <<new_file, <<old_file.dir, old_file.name>>, diffOk>>)
                  /\ diffFailed' = (diffFailed \/ ~diffOk)
                  /\ IF gvim_diff(diffOk) = "ok"
                     THEN UNCHANGED <<pc, outcome>>
                     ELSE pc' = "idle" /\ outcome' = gvim_diff(diffOk)
             [] OTHER ->
                  UNCHANGED <<history, changelog, notified, diffFailed, pc, outcome>>
    /\ UNCHANGED <<manuals, content, cacheExists, cache, run, todoDocs, todoOld,
                   failed, start>>

\* The first loop of _compare_content_files ends: old_stems - new_stems.
compare_done ==
    /\ pc = "compare"
    /\ todoNew = {}
    /\ LET old_stems == IF cacheExists THEN {PathStem(x) : x \in DOMAIN cache} ELSE {}
           new_stems == {PathStem(x) : x \in DOMAIN content}
       IN  todoOld' = old_stems \ new_stems
    /\ pc' = "removed"
    /\ UNCHANGED <<manuals, content, cacheExists, cache, history, changelog,
                   notified, diffFailed, run, todoDocs, todoNew, outcome, failed, start>>

\* One pass of the last loop of _compare_content_files, for name.
remove_name(name) ==
    /\ pc = "removed"
    /\ name \in todoOld
    /\ todoOld' = todoOld \ {name}
    /\ changelog' = add_a_blank_entry_to_the_change_log(changelog, name, run,
                        "file removed")
    /\ history' = WriteChange(history, run, WithSuffix(name, "deleted"), "")
    /\ UNCHANGED <<manuals, content, cacheExists, cache, notified, diffFailed, pc,
                   run, todoDocs, todoNew, outcome, failed, start>>

\* _compare_content_files and main return.
main_done ==
    /\ pc = "removed"
    /\ todoOld = {}
    /\ pc' = "idle"
    /\ outcome' = "ok"
    /\ UNCHANGED <<manuals, content, cacheExists, cache, history, changelog,
                   notified, diffFailed, run, todoDocs, todoNew, todoOld, failed, start>>

Next ==
    \/ \E docs \in ManualDirs : StartScript(docs)
    \/ move_content_to_cache
    \/ \E doc \in todoDocs : extract_file_content(doc)
    \/ \E doc \in todoDocs : restore_cached_content(doc)
    \/ extract_done
    \/ \E new_file \in todoNew, diffOk \in BOOLEAN : compare_new_file(new_file, diffOk)
    \/ compare_done
    \/ \E name \in todoOld : remove_name(name)
    \/ main_done

Spec == Init /\ [][Next]_vars

(***************************************************************************)
(* Properties.                                                             *)
(***************************************************************************)

\* A process has ended and none is running.
RunEnded == pc = "idle" /\ run > 0

\* The stems of the files of a directory.
StemsOf(dir) == {PathStem(n) : n \in DOMAIN dir}

\* The entries a directory holds for a stem: the files whose stem it is.
Entries(dir, stem) == {n \in DOMAIN dir : PathStem(n) = stem}

\* The snapshot directories of hist that hold an entry for the stem.
DirsWith(hist, stem) == {d \in DOMAIN hist : Entries(hist[d], stem) # {}}

\* The newest entry of hist for the stem is a tombstone.
LatestIsTombstone(hist, stem) ==
    /\ DirsWith(hist, stem) # {}
    /\ \A n \in Entries(hist[Max(DirsWith(hist, stem))], stem) : PathSuffix(n) = "deleted"

\* The newest entry of hist for the stem is a content file.
LatestIsContent(hist, stem) ==
    /\ DirsWith(hist, stem) # {}
    /\ \A n \in Entries(hist[Max(DirsWith(hist, stem))], stem) : PathSuffix(n) # "deleted"

\* The entries this process has appended to the changelog.
Appended == SubSeq(changelog, Len(start.changelog) + 1, Len(changelog))

\* C1: when a process in which every extraction succeeded has ended, the
\* cache directory does not exist.
C1_CacheDeleted == (RunEnded /\ ~failed) => ~cacheExists

\* C2: once the extraction of a process has raised, the content directory
\* holds the files, with the texts, it held when the process started.
C2_RollbackRestoresContent == failed => content = start.content

\* C2 witness: a process has ended whose extraction raised after other manuals
\* had been extracted, over a content directory that was not empty and that
\* differs from what the manuals would have extracted to.
C2_Witness ==
    /\ RunEnded /\ failed
    /\ todoDocs # DOMAIN manuals
    /\ content # EmptyDir
    /\ \E doc \in DOMAIN manuals :
          \/ WithSuffix(doc, "txt") \notin DOMAIN content
          \/ content[WithSuffix(doc, "txt")] # manuals[doc]

\* C3: a process whose extraction raised appends nothing to the changelog and
\* leaves the history as it found it.
C3_NoReconcileAfterRollback ==
    failed => (changelog = start.changelog /\ history = start.history)

\* C4: a process that follows one that ended without error, that finds the
\* manuals unchanged and whose extraction does not raise, appends nothing to the changelog and creates no
\* snapshot directory.
C4_Idempotent ==
    (run >= 2 /\ start.outcome = "ok" /\ ~start.failed /\ manuals = start.manuals
        /\ ~failed)
        => (changelog = start.changelog /\ DOMAIN history = DOMAIN start.history)

\* C5: when a manual extracted by a process that ended without error is gone
\* for the next process, and that one ends without error too, the changelog
\* holds a 'file added' entry for its stem before a 'file removed' entry, and
\* the history lookup for the stem finds nothing.
C5_AddedThenRemoved ==
    (RunEnded /\ outcome = "ok" /\ ~failed /\ start.outcome = "ok" /\ ~start.failed)
        => \A doc \in DOMAIN start.manuals \ DOMAIN manuals :
              /\ \E i, j \in 1..Len(changelog) :
                    /\ i < j
                    /\ changelog[i].filename = PathStem(doc)
                    /\ changelog[i].msg = "file added"
                    /\ changelog[j].filename = PathStem(doc)
                    /\ changelog[j].msg = "file removed"
              /\ find_latest(history, doc).kind = "none"

\* C6: when the newest history entry for the stem of a content file is a
\* tombstone, the pass of the first loop for that file appends a 'file added'
\* entry for the stem, copies the file and calls no diff.
C6_TombstoneMeansAdded ==
    [][\A new_file \in todoNew :
          (/\ pc = "compare"
           /\ todoNew' = todoNew \ {new_file}
           /\ LatestIsTombstone(history, PathStem(new_file)))
              => /\ changelog' = Append(changelog,
                        LogEntry(PathStem(new_file), run, "file added"))
                 /\ run \in DOMAIN history' /\ new_file \in DOMAIN history'[run]
                 /\ notified' = notified]_vars

\* C7: when two snapshot directories both hold a file for a stem, the
\* history lookup for that stem raises.
C7_TwoDirsRaise ==
    \A stem \in Stems :
        Cardinality(DirsWith(history, stem)) >= 2
            => find_latest(history, stem \o <<"txt">>).kind = "raise"

\* C7 amended: when two snapshot directories both hold a file for a stem, the
\* lookup decides on the newest directory that holds a file matching the
\* stem: it returns that file, or nothing when the file is a tombstone; it
\* raises only when a single directory holds several matching files.
C7_NewestDirDecides ==
    \A stem \in Stems :
        Cardinality(DirsWith(history, stem)) >= 2 =>
            LET found == find_latest(history, stem \o <<"txt">>)
                dirs == {d \in DOMAIN history : GlobStem(history[d], stem) # {}}
                newest == Max(dirs)
                several == {d \in dirs : Cardinality(GlobStem(history[d], stem)) > 1}
            IN  /\ found.kind = "raise" => several # {}
                /\ several = {} =>
                      \E n \in GlobStem(history[newest], stem) :
                          IF PathSuffix(n) = "deleted"
                          THEN found.kind = "none"
                          ELSE found = [kind |-> "match", dir |-> newest, name |-> n]

\* C7 witness: two snapshot directories hold a file for stem HSE, the older
\* with another text, and the lookup returns the file of the newer.
C7_Witness ==
    /\ Cardinality(DirsWith(history, <<"HSE">>)) >= 2
    /\ LET found == find_latest(history, <<"HSE", "txt">>)
       IN  /\ found.kind = "match"
           /\ found.dir = Max(DirsWith(history, <<"HSE">>))
           /\ \E d \in DirsWith(history, <<"HSE">>) :
                 /\ d < found.dir
                 /\ <<"HSE", "txt">> \in DOMAIN history[d]
                 /\ history[d][<<"HSE", "txt">>] # history[found.dir][found.name]

\* C8: when the reconciliation of a process has ended, every stem whose
\* newest history entry was a content file when the process started, and
\* that the content directory does not hold, has a 'file removed' entry of
\* this process and a tombstone in the snapshot directory of this process.
C8_RemovedForHistoryLiveSet ==
    (RunEnded /\ outcome = "ok") =>
        \A stem \in Stems :
            (LatestIsContent(start.history, stem) /\ stem \notin StemsOf(content))
                => /\ \E i \in 1..Len(Appended) :
                         Appended[i] = LogEntry(stem, run, "file removed")
                   /\ run \in DOMAIN history
                   /\ stem \o <<"deleted">> \in DOMAIN history[run]

\* C9: the pass of the first loop for a content file whose lookup returns a
\* prior file: when the texts differ it appends one entry for the stem of
\* the file, copies the file to the snapshot directory of the process and
\* calls the diff with (content file, prior file); when they are equal it
\* changes nothing.
C9_ModifiedOrNothing ==
    [][\A new_file \in todoNew :
          LET old_file == find_latest(history, new_file)
          IN  (/\ pc = "compare"
               /\ todoNew' = todoNew \ {new_file}
               /\ old_file.kind = "match")
                  => IF history[old_file.dir][old_file.name] # content[new_file]
                     THEN /\ Len(changelog') = Len(changelog) + 1
                          /\ changelog'[Len(changelog')].filename = PathStem(new_file)
                          /\ SubSeq(changelog', 1, Len(changelog)) = changelog
                          /\ run \in DOMAIN history'
                          /\ new_file \in DOMAIN history'[run]
                          /\ history'[run][new_file] = content[new_file]
                          /\ Len(notified') = Len(notified) + 1
                          /\ notified'[Len(notified')][1] = new_file
                          /\ notified'[Len(notified')][2] =
                                <<old_file.dir, old_file.name>>
                     ELSE UNCHANGED <<changelog, history, notified>>]_vars

\* C10: throughout a process the entries it has appended are as many as the
\* files of its snapshot directory, which exists only when there is such an
\* entry, and every other snapshot directory is as the process found it.
C10_OneFilePerEvent ==
    run > 0 =>
        /\ Len(Appended) =
              IF run \in DOMAIN history THEN Cardinality(DOMAIN history[run]) ELSE 0
        /\ DOMAIN history \ {run} = DOMAIN start.history
        /\ \A d \in DOMAIN start.history : history[d] = start.history[d]

\* The sequence a is a prefix of the sequence b.
IsPrefix(a, b) == Len(a) <= Len(b) /\ SubSeq(b, 1, Len(a)) = a

\* C11: every step of every process, whether the process ends without error,
\* rolls back or is aborted, leaves the entries the changelog held as a
\* prefix of the entries it holds afterwards.
C11_ChangelogAppendOnly == [][IsPrefix(changelog, changelog')]_vars

\* C11 witness: a process aborted by a failed diff has ended, having appended
\* entries after those of earlier processes.
C11_Witness ==
    /\ RunEnded /\ outcome = "CalledProcessError"
    /\ Len(start.changelog) >= 1
    /\ Len(changelog) > Len(start.changelog)

\* C12: a step leaves every snapshot directory older than the running
\* process as it was, or removes it when it is empty and the step is the
\* import of the module; and no such directory is empty while
\* _compare_content_files runs.
C12_OldSnapshotsUntouched ==
    [][/\ \A d \in DOMAIN history :
              d < run' =>
                  \/ d \in DOMAIN history' /\ history'[d] = history[d]
                  \/ /\ d \notin DOMAIN history'
                     /\ DOMAIN history[d] = {}
                     /\ pc = "idle" /\ pc' = "main"
       /\ pc' \in {"compare", "removed"} =>
              \A d \in DOMAIN history' : d < run' => DOMAIN history'[d] # {}]_vars

\* C12 witness: the import of the module removed an empty snapshot directory
\* and the reconciliation that followed has written its own.
C12_Witness ==
    /\ start.pruned # {}
    /\ pc = "removed"
    /\ run \in DOMAIN history

\* C13: the history lookup for a stem decides on the newest snapshot
\* directory that holds an entry for the stem: it returns that entry when
\* it is a content file and nothing when it is a tombstone, and it returns
\* nothing when no directory holds an entry.
C13_FirstEntryDecides ==
    \A stem \in Stems :
        LET found == find_latest(history, stem \o <<"txt">>)
            dirs == DirsWith(history, stem)
        IN  IF dirs = {} THEN found.kind = "none"
            ELSE \E n \in Entries(history[Max(dirs)], stem) :
                    IF PathSuffix(n) = "deleted"
                    THEN found.kind = "none"
                    ELSE found = [kind |-> "match", dir |-> Max(dirs), name |-> n]

\* C14: the history lookup for a stem raises when the newest snapshot
\* directory that holds an entry for the stem holds several, and it raises
\* only when some snapshot directory holds several entries for that stem.
C14_AmbiguousOnlyForDuplicates ==
    \A stem \in Stems :
        LET found == find_latest(history, stem \o <<"txt">>)
            dirs == DirsWith(history, stem)
        IN  /\ (dirs # {} /\ Cardinality(Entries(history[Max(dirs)], stem)) > 1)
                  => found.kind = "raise"
            /\ found.kind = "raise"
                  => \E d \in DOMAIN history : Cardinality(Entries(history[d], stem)) > 1

\* C15: no snapshot directory holds two entries for one stem, and no process
\* ends with the ValueError of the ambiguous match.
C15_OneEntryPerStem ==
    /\ \A d \in DOMAIN history : \A n1, n2 \in DOMAIN history[d] :
          PathStem(n1) = PathStem(n2) => n1 = n2
    /\ outcome # "ValueError"

\* C16: a call of the diff that returns nonzero ends the process with
\* CalledProcessError, and the entry and the snapshot file written for the
\* file before the call, like every entry and file written earlier, stay:
\* nothing is rolled back.
C16_DiffFailureSurfaced ==
    [][(/\ Len(notified') = Len(notified) + 1
        /\ ~notified'[Len(notified')][3])
           => LET new_file == notified'[Len(notified')][1]
              IN  /\ pc' = "idle"
                  /\ outcome' = "CalledProcessError"
                  /\ Len(changelog') = Len(changelog) + 1
                  /\ IsPrefix(changelog, changelog')
                  /\ changelog'[Len(changelog')].msg = "#TODO"
                  /\ run \in DOMAIN history'
                  /\ new_file \in DOMAIN history'[run]
                  /\ history'[run][new_file] = content[new_file]
                  /\ \A d \in DOMAIN history :
                        /\ d \in DOMAIN history'
                        /\ \A n \in DOMAIN history[d] :
                              n \in DOMAIN history'[d] /\ history'[d][n] = history[d][n]
                  /\ UNCHANGED <<content, cache, cacheExists>>]_vars

\* C16 witness: a process has ended with CalledProcessError after appending
\* two entries or more, and its snapshot directory is in the history.
C16_Witness ==
    /\ RunEnded /\ outcome = "CalledProcessError"
    /\ Len(Appended) >= 2
    /\ run \in DOMAIN history
    /\ notified # <<>> /\ ~notified[Len(notified)][3]

\* C17: throughout the extraction the cache directory exists and holds the
\* files the content directory held when the process started, and no other;
\* the content directory is empty until the first manual is extracted.
C17_CacheHoldsPriorContent ==
    pc = "extract" =>
        /\ cacheExists
        /\ cache = start.content
        /\ todoDocs = DOMAIN manuals => content = EmptyDir

\* C17 witness: a later process is extracting, some manuals done, over a
\* cache that is not empty and differs from the content being extracted.
C17_Witness ==
    /\ pc = "extract" /\ run >= 2
    /\ cache # EmptyDir
    /\ todoDocs # DOMAIN manuals
    /\ content # cache

\* The history lookup agrees with the content directory for stem: it returns
\* a file with the text of the content file of that stem, or nothing when the
\* content directory holds no file of that stem.
InSyncFor(stem) ==
    LET found == find_latest(history, stem \o <<"txt">>)
    IN  IF stem \o <<"txt">> \in DOMAIN content
        THEN /\ found.kind = "match"
             /\ history[found.dir][found.name] = content[stem \o <<"txt">>]
        ELSE found.kind = "none"

\* C18: from empty stores, after every process that ends normally, committed
\* or rolled back, while no diff has ever failed, the history lookup agrees
\* with the content directory for every stem.
C18_HistoryInSync ==
    (RunEnded /\ outcome = "ok" /\ ~diffFailed) => \A stem \in Stems : InSyncFor(stem)

\* C19: when a process is ended by a failing diff after a successful
\* extraction, the next process over the same manuals that ends normally
\* leaves the history lookup in agreement with the content directory for
\* every stem.
C19_NoChangeLostByAbort ==
    (/\ RunEnded /\ outcome = "ok" /\ ~failed
     /\ start.outcome = "CalledProcessError" /\ ~start.failed
     /\ manuals = start.manuals)
        => \A stem \in Stems : InSyncFor(stem)

\* entry.split("\t") of the line the writer has written for a changelog
\* entry (f"{filename}\t{timestamp}\t{msg}\n"; no field holds a tab), each
\* field stripped.
SplitEntry(entry) == <<entry.filename, entry.timestamp, entry.msg>>

\* log_file.readlines(): the lines of the changelog file, split into fields.
ReadLines(log) == [i \in 1..Len(log) |-> SplitEntry(log[i])]

\* map_changes_to_filenames: the lines after the first one are unpacked into
\* three fields and their third fields are gathered by the first field, in
\* the order of the file; a line of another number of fields raises.
map_changes_to_filenames(log_entries) ==
    LET entries == IF log_entries = <<>> THEN <<>> ELSE Tail(log_entries)
        filenames == {entries[i][1] : i \in 1..Len(entries)}
        changes(filename) ==
            LET same == SelectSeq(entries, LAMBDA e : e[1] = filename)
            IN  [i \in 1..Len(same) |-> same[i][3]]
    IN  IF \E i \in 1..Len(entries) : Len(entries[i]) # 3
        THEN [kind |-> "ValueError"]
        ELSE [kind |-> "ok",
              filename2changes |-> [f \in filenames |-> changes(f)]]

\* The messages of every entry of log for each stem, in the order of log.
MessagesByStem(log) ==
    LET stems == {log[i].filename : i \in 1..Len(log)}
        of(stem) ==
            LET same == SelectSeq(log, LAMBDA e : e.filename = stem)
            IN  [i \in 1..Len(same) |-> same[i].msg]
    IN  [stem \in stems |-> of(stem)]

\* C20: for a changelog that holds only entries appended by the writer, the
\* report tool maps each stem to the messages of every entry of that stem,
\* in the order of the changelog.
C20_ReportGroupsEveryEntry ==
    changelog # <<>> =>
        map_changes_to_filenames(ReadLines(changelog))
            = [kind |-> "ok", filename2changes |-> MessagesByStem(changelog)]

====
